---- MODULE Spec2Model ----
(***************************************************************************)
(* UHPM package lifecycle: the catalog (src/src/db.rs), the installer,     *)
(* remover, switcher and updater (src/src/package/*.rs) over a small       *)
(* filesystem of package trees and activation targets.                     *)
(*                                                                         *)
(* Versions are MAJOR.0.0 and are written as their MAJOR number; the       *)
(* catalog column `version` is TEXT, so every place where the code orders  *)
(* or compares the column goes through VersionToString / VersionParse.     *)
(*                                                                         *)
(* Not part of the state: the staging directory tmp/ an archive is         *)
(* unpacked into (nothing reads it after the rename), and the parent       *)
(* directories of the activation targets.                                  *)
(***************************************************************************)
EXTENDS Integers, Sequences, FiniteSets, Bags, TLC

\* ------------------------------------------------------------------ bounds

\* Largest number of packages rows with one (name, version): an install that
\* would add one more is not taken.
MaxCopies == 2

\* ------------------------------------------------------------- the universe

Names == {"hello", "tool"}

Versions == {2, 10}

NoVersion == 0

\* Activation targets after variable expansion (symlist.rs expand_vars).
Targets == {"~/.local/bin/hello", "~/.local/share/doc"}

NoArchive == "none"

\* The package archives of the model.  files: the payload files of the tree;
\* symlist / ron: the activation maps `symlist` and `symlist.ron` at the root
\* of the tree ("missing" when the archive has no such file), as the
\* sequence of (source, target) pairs load_symlist returns for them.  The
\* installer reads `symlist` alone, so an archive without `symlist.ron`
\* installs like one with it;
\* deps, author, checksum, src: the fields of the manifest uhp.toml; src is
\* a package::Source, a tagged string.
\* file: what is at the path of the archive ("tar.gz", "not_gzip" or
\* "missing"); manifest: the state of uhp.toml in it ("ok", "missing" or
\* "malformed"); unsafe: the entry paths of the tar that hold `..` or start
\* with `/`.
Archives ==
    { [id |-> "hello-2.0.0.uhp", name |-> "hello", version |-> 2,
       files |-> {"bin/hello", "share/doc"},
       symlist_state |-> "ok",
       symlist |-> << <<"bin/hello", "~/.local/bin/hello">>,
                      <<"share/doc", "~/.local/share/doc">> >>,
       ron_state |-> "missing", ron |-> << >>,
       deps |-> { <<"lib", 2>> },
       author |-> "ann", checksum |-> "c2",
       file |-> "tar.gz", manifest |-> "ok", unsafe |-> {},
       src |-> [tag |-> "Raw", text |-> "hello sources"]],
      [id |-> "hello-10.0.0.uhp", name |-> "hello", version |-> 10,
       files |-> {"bin/hello"},
       symlist_state |-> "ok",
       symlist |-> << <<"bin/hello", "~/.local/bin/hello">>,
                      <<"bin/extra", "~/.local/share/doc">> >>,
       ron_state |-> "ok",
       ron |-> << <<"bin/hello", "~/.local/bin/hello">>,
                  <<"bin/extra", "~/.local/share/doc">> >>,
       deps |-> {},
       author |-> "ann", checksum |-> "c10",
       file |-> "tar.gz", manifest |-> "ok", unsafe |-> {},
       src |-> [tag |-> "Raw", text |-> "hello sources"]],
      [id |-> "tool-2.0.0.uhp", name |-> "tool", version |-> 2,
       files |-> {"bin/tool"},
       symlist_state |-> "ok",
       symlist |-> << <<"bin/tool", "~/.local/share/doc">> >>,
       ron_state |-> "ok",
       ron |-> << <<"bin/tool", "~/.local/share/doc">> >>,
       deps |-> {},
       author |-> "bob", checksum |-> "t2",
       file |-> "tar.gz", manifest |-> "ok", unsafe |-> {},
       src |-> [tag |-> "Url", text |-> "https://example.org/tool.git"]] }

\* Archives an install cannot take as they are.  evil.uhp is a well-formed
\* package whose tar also holds the entries ../evil and /etc/evil.
BrokenArchives ==
    { [id |-> "nonexistent.uhp", name |-> "", version |-> NoVersion,
       files |-> {}, symlist_state |-> "missing", symlist |-> << >>,
       ron_state |-> "missing", ron |-> << >>, deps |-> {},
       author |-> "", checksum |-> "", src |-> [tag |-> "Raw", text |-> ""],
       file |-> "missing", manifest |-> "missing", unsafe |-> {}],
      [id |-> "corrupted.uhp", name |-> "", version |-> NoVersion,
       files |-> {}, symlist_state |-> "missing", symlist |-> << >>,
       ron_state |-> "missing", ron |-> << >>, deps |-> {},
       author |-> "", checksum |-> "", src |-> [tag |-> "Raw", text |-> ""],
       file |-> "not_gzip", manifest |-> "missing", unsafe |-> {}],
      [id |-> "invalid.uhp", name |-> "", version |-> NoVersion,
       files |-> {"some_file.txt"}, symlist_state |-> "missing", symlist |-> << >>,
       ron_state |-> "missing", ron |-> << >>, deps |-> {},
       author |-> "", checksum |-> "", src |-> [tag |-> "Raw", text |-> ""],
       file |-> "tar.gz", manifest |-> "missing", unsafe |-> {}],
      [id |-> "badmeta.uhp", name |-> "", version |-> NoVersion,
       files |-> {"bin/tool"}, symlist_state |-> "ok",
       symlist |-> << <<"bin/tool", "~/.local/share/doc">> >>,
       ron_state |-> "missing", ron |-> << >>, deps |-> {},
       author |-> "", checksum |-> "", src |-> [tag |-> "Raw", text |-> ""],
       file |-> "tar.gz", manifest |-> "malformed", unsafe |-> {}],
      [id |-> "evil.uhp", name |-> "tool", version |-> 10,
       files |-> {"bin/tool", "etc/evil"}, symlist_state |-> "ok",
       symlist |-> << <<"bin/tool", "~/.local/share/doc">> >>,
       ron_state |-> "missing", ron |-> << >>, deps |-> {},
       author |-> "eve", checksum |-> "e10", src |-> [tag |-> "Raw", text |-> "evil"],
       file |-> "tar.gz", manifest |-> "ok", unsafe |-> {"../evil", "/etc/evil"}] }

\* Well-formed packages whose activation map does not load: nomap.uhp has
\* no file `symlist`, badmap.uhp has one with a line that does not parse.
MaplessArchives ==
    { [id |-> "nomap.uhp", name |-> "tool", version |-> 10,
       files |-> {"bin/tool"}, symlist_state |-> "missing", symlist |-> << >>,
       ron_state |-> "missing", ron |-> << >>, deps |-> {},
       author |-> "bob", checksum |-> "n10",
       file |-> "tar.gz", manifest |-> "ok", unsafe |-> {},
       src |-> [tag |-> "Raw", text |-> "tool sources"]],
      [id |-> "badmap.uhp", name |-> "hello", version |-> 2,
       files |-> {"bin/hello"}, symlist_state |-> "malformed",
       symlist |-> << <<"bin/hello", "~/.local/bin/hello">> >>,
       ron_state |-> "missing", ron |-> << >>, deps |-> {},
       author |-> "ann", checksum |-> "b2",
       file |-> "tar.gz", manifest |-> "ok", unsafe |-> {},
       src |-> [tag |-> "Raw", text |-> "hello sources"]] }

AllArchives == Archives \cup BrokenArchives \cup MaplessArchives

ArchiveById(id) == CHOOSE a \in AllArchives : a.id = id

\* The repository indexes the model starts from: rows (name, version) of the
\* repository's packages table; the url of a row is the archive of that
\* (name, version).
RepoChoices ==
    { { <<"hello", 2>>, <<"hello", 10>>, <<"tool", 2>> },
      { <<"hello", 2>>, <<"tool", 2>> } }

ArchiveOf(n, v) ==
    CHOOSE a \in Archives \cup BrokenArchives : a.name = n /\ a.version = v

\* ---------------------------------------------------------------- versions

RECURSIVE DecimalDigits(_)
\* The decimal digits of n as character codes ('0' = 48).
DecimalDigits(n) ==
    IF n < 10 THEN << 48 + n >>
    ELSE Append(DecimalDigits(n \div 10), 48 + (n % 10))

\* semver::Version's Display for MAJOR.0.0, as character codes ('.' = 46).
VersionToString(v) == DecimalDigits(v) \o << 46, 48, 46, 48 >>

RECURSIVE ParseDigits(_, _, _)
ParseDigits(s, i, acc) ==
    IF i > Len(s) \/ s[i] = 46 THEN acc
    ELSE ParseDigits(s, i + 1, acc * 10 + (s[i] - 48))

\* semver::Version::parse of a string VersionToString wrote: its MAJOR.
VersionParse(s) == ParseDigits(s, 1, 0)

RECURSIVE BytesLess(_, _)
\* SQLite's BINARY collation on TEXT: memcmp, then the shorter first.
BytesLess(a, b) ==
    IF a = << >> THEN b # << >>
    ELSE IF b = << >> THEN FALSE
    ELSE IF Head(a) # Head(b) THEN Head(a) < Head(b)
    ELSE BytesLess(Tail(a), Tail(b))

\* semver ordering of MAJOR.0.0 versions.
SemverMax(vs) == CHOOSE v \in vs : \A w \in vs : w <= v

\* -------------------------------------------------------------- filesystem

File(kind, n, v, src) == [kind |-> kind, n |-> n, v |-> v, src |-> src]

Absent == File("absent", "", NoVersion, "")

\* A regular file the user wrote.
UserFile == File("file", "", NoVersion, "")

\* A symlink the user made, to an existing file outside ~/.uhpm.
UserLink == File("symlink", "", NoVersion, "elsewhere")

\* The symlink target-abs -> packages/<n>-<v>/<src>.
Link(n, v, src) == File("symlink", n, v, src)

\* The direct-mode byte copy of packages/<n>-<v>/<src>.
Copy(n, v, src) == File("copy", n, v, src)


\* Path::exists: follows symlinks, so a symlink whose target is gone does
\* not exist.
exists(fs, tree, t) ==
    LET f == fs[t] IN
    CASE f.kind = "absent" -> FALSE
      [] f.kind = "symlink" /\ f.n # "" ->
            /\ tree[<<f.n, f.v>>] # NoArchive
            /\ f.src \in ArchiveById(tree[<<f.n, f.v>>]).files
      [] OTHER -> TRUE

\* ----------------------------------------------------------------- catalog

RECURSIVE SumOver(_, _)
SumOver(S, B) ==
    IF S = {} THEN 0
    ELSE LET x == CHOOSE y \in S : TRUE IN B[x] + SumOver(S \ {x}, B)

\* The table after UPDATE ... SET: every row r becomes set[r].
UpdateRows(set, B) ==
    LET img == { set[r] : r \in DOMAIN B }
    IN  [ x \in img |-> SumOver({ r \in DOMAIN B : set[r] = x }, B) ]

\* The table after DELETE ... WHERE: the rows in gone are deleted.
DeleteRows(gone, B) == [ x \in DOMAIN B \ gone |-> B[x] ]

Row(n, v, c) == [name |-> n, version |-> v, current |-> c]

RowsOf(pk, n) == { r \in DOMAIN pk : r.name = n }

VersionsOf(pk, n) == { r.version : r \in RowsOf(pk, n) }

\* Number of packages rows with this (name, version).
CopiesOf(pk, n, v) == CopiesIn(Row(n, v, TRUE), pk) + CopiesIn(Row(n, v, FALSE), pk)

\* add_package as an upsert on (name, version): the rows of the pair are
\* replaced by the one inserted, whose current is 0.
add_package_upsert(pk, n, v) ==
    DeleteRows({ r \in DOMAIN pk : r.name = n /\ r.version = v }, pk)
        (+) SetToBag({ Row(n, v, FALSE) })

\* packages has the key `id INTEGER PRIMARY KEY` alone, which the INSERT does
\* not bind: INSERT OR REPLACE finds no conflict and adds a row.
add_package(pk, n, v) == pk (+) SetToBag({ Row(n, v, FALSE) })

\* INSERT OR REPLACE INTO dependencies, key (package_name, dependency_name).
ReplaceDependency(deps, n, d) ==
    { x \in deps : ~(x[1] = n /\ x[2] = d[1]) } \cup { <<n, d[1], d[2]>> }

RECURSIVE ReplaceDependencies(_, _, _)
ReplaceDependencies(deps, n, ds) ==
    IF ds = {} THEN deps
    ELSE LET d == CHOOSE x \in ds : TRUE
         IN  ReplaceDependencies(ReplaceDependency(deps, n, d), n, ds \ {d})

\* s: a state of the catalog and the filesystem; a: the parsed manifest.
add_package_full(s, a, files) ==
    [s EXCEPT
        !.packages = add_package(@, a.name, a.version),
        !.dependencies = ReplaceDependencies(@, a.name, a.deps),
        !.installed_files = @ \cup { <<a.name, a.version, f>> : f \in files }]

\* SELECT file_path FROM installed_files WHERE package_name = ?
get_all_installed_files(s, n) == { x[3] : x \in { y \in s.installed_files : y[1] = n } }

\* SELECT file_path FROM installed_files WHERE package_name = ? AND
\* package_version = ?
get_installed_files(s, n, v) ==
    { x[3] : x \in { y \in s.installed_files : y[1] = n /\ y[2] = v } }

\* SELECT name, version, current FROM packages
list_packages(pk) == { <<r.name, r.version, r.current>> : r \in DOMAIN pk }

\* The versions a `WHERE name = ? AND current = 1` query can return: the
\* callers fetch_optional one of its rows.
get_package_version(pk, n) == { r.version : r \in { x \in RowsOf(pk, n) : x.current } }

\* Source::as_str: the string of the source without its tag.
as_str(src) == src.text

\* The manifest of an archive as a Package value.
Manifest(a) ==
    [name |-> a.name, version |-> a.version, author |-> a.author, src |-> a.src,
     checksum |-> a.checksum, dependencies |-> a.deps]

\* The Package the lookups build from a packages row of (n, v): the columns
\* author, src and checksum are those add_package bound from the manifest of
\* the archive of (n, v), src as the text as_str gave; the row's src comes
\* back as Source::Raw, the version through its text.  The dependencies are
\* the rows of `SELECT ... FROM dependencies WHERE package_name = ?`, the
\* query by name alone.
PackageOfRow(s, n, v) ==
    LET a == ArchiveOf(n, v)
    IN  [name |-> n, version |-> VersionParse(VersionToString(v)),
         author |-> a.author,
         src |-> [tag |-> "Raw", text |-> as_str(a.src)],
         checksum |-> a.checksum,
         dependencies |-> { <<x[2], VersionParse(VersionToString(x[3]))>> :
                              x \in { y \in s.dependencies : y[1] = n } }]

\* db.get_package_by_version: the set of its possible results, empty for
\* Ok(None).
get_package_by_version(s, n, v) ==
    IF CopiesOf(s.packages, n, v) = 0 THEN {} ELSE { PackageOfRow(s, n, v) }

\* db.get_current_package: one of the rows with current = 1.
get_current_package(s, n) ==
    { PackageOfRow(s, n, v) : v \in get_package_version(s.packages, n) }

\* SELECT version ... ORDER BY version DESC LIMIT 1, parsed; NoVersion for
\* no row.
is_installed(pk, n) ==
    IF RowsOf(pk, n) = {} THEN NoVersion
    ELSE LET texts == { VersionToString(v) : v \in VersionsOf(pk, n) }
         IN  VersionParse(CHOOSE t \in texts : \A u \in texts : u = t \/ BytesLess(u, t))

\* UPDATE packages SET current = 0 WHERE name = ?
ClearCurrent(pk, n) ==
    UpdateRows([r \in DOMAIN pk |->
                    IF r.name = n THEN [r EXCEPT !.current = FALSE] ELSE r], pk)

\* UPDATE packages SET current = 1 WHERE name = ? AND version = ?
MarkCurrent(pk, n, v) ==
    UpdateRows([r \in DOMAIN pk |->
                    IF r.name = n /\ r.version = v
                    THEN [r EXCEPT !.current = TRUE] ELSE r], pk)

set_current_version(pk, n, v) == MarkCurrent(ClearCurrent(pk, n), n, v)

\* DELETE FROM installed_files WHERE package_name = ? AND package_version = ?
\* DELETE FROM dependencies WHERE package_name = ?
\* DELETE FROM packages WHERE name = ? AND version = ?
remove_package_version(s, n, v) ==
    [s EXCEPT
        !.installed_files = { x \in @ : ~(x[1] = n /\ x[2] = v) },
        !.dependencies = { x \in @ : x[1] # n },
        !.packages = DeleteRows({ r \in DOMAIN @ : r.name = n /\ r.version = v }, @)]

\* remove_package deleting the rows of the current version alone.
remove_package_current_only(s, n) ==
    LET cur == get_package_version(s.packages, n)
    IN  [s EXCEPT
            !.installed_files = { x \in @ : ~(x[1] = n /\ x[2] \in cur) },
            !.dependencies = { x \in @ : x[1] # n },
            !.packages = DeleteRows({ r \in DOMAIN @ : r.name = n /\ r.version \in cur }, @)]

\* DELETE FROM installed_files / dependencies / packages WHERE name = ?
remove_package(s, n) ==
    [s EXCEPT
        !.installed_files = { x \in @ : x[1] # n },
        !.dependencies = { x \in @ : x[1] # n },
        !.packages = DeleteRows(RowsOf(@, n), @)]

\* ------------------------------------------------------- symlist parsing

\* Longest line and largest number of lines of a symlist file.
MaxLineLen == 3

MaxLines == 2

\* The characters of a line: a path character, space, tab, `#`.
Chars == {"a", " ", "\t", "#"}

Lines == UNION { [1..k -> Chars] : k \in 0..MaxLineLen }

SymlistFiles == UNION { [1..k -> Lines] : k \in 0..MaxLines }

\* char::is_whitespace, on the characters of the model.
is_whitespace(c) == c \in {" ", "\t"}

RECURSIVE trim_start(_)
trim_start(s) ==
    IF s = << >> \/ ~is_whitespace(Head(s)) THEN s ELSE trim_start(Tail(s))

RECURSIVE trim_end(_)
trim_end(s) ==
    IF s = << >> \/ ~is_whitespace(s[Len(s)]) THEN s
    ELSE trim_end(SubSeq(s, 1, Len(s) - 1))

\* str::trim
trim(s) == trim_end(trim_start(s))

\* line.splitn(2, ' '): the line cut at its first space character, or the
\* line alone when it has none.
splitn2(s) ==
    LET at == { i \in 1..Len(s) : s[i] = " " }
    IN  IF at = {} THEN << s >>
        ELSE LET i == CHOOSE x \in at : \A y \in at : x <= y
             IN  << SubSeq(s, 1, i - 1), SubSeq(s, i + 1, Len(s)) >>

\* parse_symlist_line: kind "skip" for Err(Parse("Empty or comment line")),
\* "error" for the other Err results, "entry" for Ok.
parse_symlist_line(line) ==
    LET l == trim(line)
        parts == splitn2(l)
        none == [kind |-> "error", source |-> << >>, target |-> << >>]
    IN  IF l = << >> \/ Head(l) = "#" THEN [none EXCEPT !.kind = "skip"]
        ELSE IF Len(parts) # 2 THEN none
        ELSE IF trim(parts[1]) = << >> \/ trim(parts[2]) = << >> THEN none
        ELSE [kind |-> "entry", source |-> trim(parts[1]), target |-> trim(parts[2])]

\* package_root.join(source), for a source that does not start with `/`.
join(source) == << "package_root", "/" >> \o source

\* expand_vars(target): a target without `$` comes back as it is.
expand_vars(target) == target

RECURSIVE load_lines(_, _, _)
\* The loop of load_symlist from line i on, with the entries pushed so far.
load_lines(lines, i, entries) ==
    IF i > Len(lines) THEN [ok |-> TRUE, line |-> 0, entries |-> entries]
    ELSE LET r == parse_symlist_line(lines[i])
         IN  CASE r.kind = "entry" ->
                    load_lines(lines, i + 1,
                               Append(entries, << join(r.source), expand_vars(r.target) >>))
               [] r.kind = "skip" -> load_lines(lines, i + 1, entries)
               [] OTHER -> [ok |-> FALSE, line |-> i, entries |-> << >>]

\* load_symlist on a file with these lines (content.lines()): Ok(entries), or
\* Err(Parse("Line <line>: ...")).
load_symlist(lines) == load_lines(lines, 1, << >>)

\* -------------------------------------------------------------- activation

\* LinkEntry without the removal of what is already at the target.
LinkEntryKeepsExisting(r, tree, pkg, e, direct) ==
    LET src == e[1]
        dst == e[2]
        a   == ArchiveById(tree[pkg])
    IN  IF ~r.ok \/ src \notin a.files THEN r
        ELSE IF r.fs[dst] # Absent THEN [r EXCEPT !.ok = FALSE]
        ELSE [r EXCEPT
                !.fs = [r.fs EXCEPT ![dst] = IF direct THEN Copy(pkg[1], pkg[2], src)
                                             ELSE Link(pkg[1], pkg[2], src)],
                !.files = @ \cup {dst}]

\* One entry of create_symlinks' loop on the filesystem fs; r carries the
\* filesystem, the targets pushed so far and whether an `?` has returned.
LinkEntry(r, tree, pkg, e, direct) ==
    LET src == e[1]
        dst == e[2]
        a   == ArchiveById(tree[pkg])
        \* if dst_abs.exists() { fs::remove_file(&dst_abs)? }
        fs1 == IF exists(r.fs, tree, dst) THEN [r.fs EXCEPT ![dst] = Absent] ELSE r.fs
    IN  IF ~r.ok \/ src \notin a.files THEN r
        \* What is left at dst is a symlink whose target is gone: symlink()
        \* finds the path taken, copy() opens the missing target through it.
        ELSE IF fs1[dst] # Absent THEN [r EXCEPT !.ok = FALSE]
        ELSE [r EXCEPT
                !.fs = [fs1 EXCEPT ![dst] = IF direct THEN Copy(pkg[1], pkg[2], src)
                                            ELSE Link(pkg[1], pkg[2], src)],
                !.files = @ \cup {dst}]

RECURSIVE LinkEntries(_, _, _, _, _, _)
LinkEntries(r, tree, pkg, entries, i, direct) ==
    IF i > Len(entries) THEN r
    ELSE LinkEntries(LinkEntry(r, tree, pkg, entries[i], direct),
                     tree, pkg, entries, i + 1, direct)

\* create_symlinks returning the error of a `symlist` that does not load.
create_symlinks_strict(fs, tree, pkg, direct) ==
    LET a  == ArchiveById(tree[pkg])
        r0 == [fs |-> fs, files |-> {}, ok |-> TRUE]
    IN  IF a.symlist_state # "ok" THEN [r0 EXCEPT !.ok = FALSE]
        ELSE LinkEntries(r0, tree, pkg, a.symlist, 1, direct)

\* create_symlinks on packages/<pkg>: [fs, files, ok].  A `symlist` that
\* does not load is logged and yields no link.
create_symlinks(fs, tree, pkg, direct) ==
    LET a  == ArchiveById(tree[pkg])
        r0 == [fs |-> fs, files |-> {}, ok |-> TRUE]
    IN  IF a.symlist_state # "ok" THEN r0
        ELSE LinkEntries(r0, tree, pkg, a.symlist, 1, direct)

\* UnlinkEntry without the look at what the target is: whatever exists at
\* the target is removed.
UnlinkEntryAnyKind(fs, tree, pkg, e) ==
    IF exists(fs, tree, e[2]) THEN [fs EXCEPT ![e[2]] = Absent] ELSE fs

\* The switcher's clean-up of one entry of the current version's map.
UnlinkEntry(fs, tree, pkg, e) ==
    IF exists(fs, tree, e[2]) /\ fs[e[2]] = Link(pkg[1], pkg[2], e[1])
    THEN [fs EXCEPT ![e[2]] = Absent]
    ELSE fs

RECURSIVE UnlinkEntries(_, _, _, _, _)
UnlinkEntries(fs, tree, pkg, entries, i) ==
    IF i > Len(entries) THEN fs
    ELSE UnlinkEntries(UnlinkEntry(fs, tree, pkg, entries[i]), tree, pkg, entries, i + 1)

\* ------------------------------------------------------------- operations

\* installer::unpack: the archive is opened and tar::Archive::unpack extracts
\* it into the staging directory tmp/<stem>.  The code checks no entry path:
\* the tar crate skips an entry with a `..` component, strips the leading
\* `/` of an absolute one and returns Ok, so nothing lands outside staging
\* and no entry makes unpack fail.
unpack(a) ==
    IF a.file = "tar.gz" THEN [ok |-> TRUE, staged |-> a.files]
    ELSE [ok |-> FALSE, staged |-> {}]

\* package::meta_parser on tmp/<stem>/uhp.toml: read_to_string(..)? returns
\* the error for a missing file, toml::from_str(..).unwrap() panics on a
\* malformed one.
meta_parser(a) ==
    CASE a.manifest = "ok" -> "ok"
      [] a.manifest = "missing" -> "meta_error"
      [] OTHER -> "panic"

\* installer::install of archive a: [st, result, fresh].  result "panic":
\* the process aborted inside the call.
install(s, a, direct) ==
    LET n == a.name
        v == a.version
        pkg == <<n, v>>
        already_installed == is_installed(s.packages, n)
        \* the tree unpacked under tmp/ is renamed onto packages/<n>-<v>
        moved == [s EXCEPT !.tree[pkg] = a.id]
        made == IF already_installed = NoVersion
                THEN create_symlinks(moved.fs, moved.tree, pkg, direct)
                ELSE [fs |-> moved.fs, files |-> {}, ok |-> TRUE]
        linked == [moved EXCEPT !.fs = made.fs]
        recorded == add_package_full(linked, a, made.files)
    IN  IF ~unpack(a).ok
        THEN [st |-> s, result |-> "unpack_error", fresh |-> FALSE]
        ELSE IF meta_parser(a) # "ok"
        THEN [st |-> s, result |-> meta_parser(a), fresh |-> FALSE]
        ELSE IF already_installed = v
        THEN [st |-> s, result |-> "same_version_skipped",
              fresh |-> FALSE]
        ELSE IF ~made.ok
        THEN [st |-> linked, result |-> "io_error", fresh |-> already_installed = NoVersion]
        ELSE [st |-> [recorded EXCEPT !.packages = set_current_version(@, n, v)],
              result |-> "ok", fresh |-> already_installed = NoVersion]

\* remove without its call of db.remove_package.
remove_forgets_catalog(s, n, v) ==
    LET gone == [s EXCEPT !.tree[<<n, v>>] = NoArchive]
        files == get_all_installed_files(gone, n)
    IN  [gone EXCEPT !.fs = [t \in Targets |->
            IF t \in files /\ exists(gone.fs, gone.tree, t) THEN Absent
            ELSE gone.fs[t]]]

\* remover::remove of name n whose current version the query returned is v.
\* The files are those of db.get_installed_files(pkg_name): the query by
\* name alone.  A recorded path is removed when Path::exists holds for it,
\* whatever is there.
remove(s, n, v) ==
    LET gone == [s EXCEPT !.tree[<<n, v>>] = NoArchive]
        files == get_all_installed_files(gone, n)
        swept == [gone EXCEPT !.fs = [t \in Targets |->
                      IF t \in files /\ exists(gone.fs, gone.tree, t) THEN Absent
                      ELSE gone.fs[t]]]
    IN  remove_package(swept, n)

\* switch_version without its check that packages/<n>-<target> exists:
\* create_symlinks logs the symlist it cannot load and makes no link.
switch_version_unchecked(s, n, target, cur) ==
    LET old == <<n, cur>>
        new == <<n, target>>
        cleaned ==
            IF cur # NoVersion /\ s.tree[old] # NoArchive
                 /\ ArchiveById(s.tree[old]).ron_state = "ok"
            THEN [s EXCEPT !.fs = UnlinkEntries(@, s.tree, old,
                                                ArchiveById(s.tree[old]).ron, 1)]
            ELSE s
        made == IF cleaned.tree[new] = NoArchive
                THEN [fs |-> cleaned.fs, files |-> {}, ok |-> TRUE]
                ELSE create_symlinks(cleaned.fs, cleaned.tree, new, FALSE)
    IN  IF ~made.ok
        THEN [st |-> [cleaned EXCEPT !.fs = made.fs], result |-> "io_error"]
        ELSE [st |-> [cleaned EXCEPT !.fs = made.fs,
                                     !.packages = set_current_version(@, n, target)],
              result |-> "ok"]

\* switch_version with the check of packages/<n>-<target> moved ahead of
\* the clean-up of the current version.
switch_version_checks_first(s, n, target, cur) ==
    IF s.tree[<<n, target>>] = NoArchive
    THEN [st |-> s, result |-> "missing_package_dir"]
    ELSE switch_version_unchecked(s, n, target, cur)

\* switcher::switch_version to `target`; cur: the current version the
\* query returned, NoVersion for none.  [st, result].
switch_version(s, n, target, cur) ==
    LET old == <<n, cur>>
        new == <<n, target>>
        cleaned ==
            IF cur # NoVersion /\ s.tree[old] # NoArchive
                 /\ ArchiveById(s.tree[old]).ron_state = "ok"
            THEN [s EXCEPT !.fs = UnlinkEntries(@, s.tree, old,
                                                ArchiveById(s.tree[old]).ron, 1)]
            ELSE s
        made == create_symlinks(cleaned.fs, cleaned.tree, new, FALSE)
    IN  IF cleaned.tree[new] = NoArchive
        THEN [st |-> cleaned, result |-> "missing_package_dir"]
        ELSE IF ~made.ok
        THEN [st |-> [cleaned EXCEPT !.fs = made.fs], result |-> "io_error"]
        ELSE [st |-> [cleaned EXCEPT !.fs = made.fs,
                                     !.packages = set_current_version(@, n, target)],
              result |-> "ok"]

\* updater::check_for_update: the version whose url is returned, NoVersion
\* for NoNewVersion.  The loop keeps the greatest version the repositories
\* list for the name.
check_for_update(index, n) ==
    LET listed == { x[2] : x \in { y \in index : y[1] = n } }
    IN  IF listed = {} THEN NoVersion ELSE SemverMax(listed)

\* The versions the repository index lists for name n.
Listed(index, n) == { x[2] : x \in { y \in index : y[1] = n } }

\* The orders in which a HashMap holding one entry per element of S can be
\* iterated.
Orders(S) ==
    { q \in [1..Cardinality(S) -> S] : \A i, j \in DOMAIN q : q[i] = q[j] => i = j }

RECURSIVE install_fetched_packages(_, _, _, _, _)
\* fetcher::install_fetched_packages over the downloaded archives of name n
\* in iteration order `order`, from position i: the first failing install
\* returns.  [st, result].
install_fetched_packages(s, n, order, i, direct) ==
    IF i > Len(order) THEN [st |-> s, result |-> "ok"]
    ELSE LET r == install(s, ArchiveOf(n, order[i]), direct)
         IN  IF r.result = "io_error" THEN [st |-> r.st, result |-> "io_error"]
             ELSE install_fetched_packages(r.st, n, order, i + 1, direct)

RECURSIVE install_batch(_, _, _, _)
\* fetcher::install_fetched_packages over downloaded archives of any names
\* in the iteration order `order` of the map, from position i: each archive
\* is installed in turn and the first install that does not return Ok ends
\* the loop.  [st, result].
install_batch(s, order, i, direct) ==
    IF i > Len(order) THEN [st |-> s, result |-> "ok"]
    ELSE LET r == install(s, order[i], direct)
         IN  IF r.result \notin {"ok", "same_version_skipped"}
             THEN [st |-> r.st, result |-> r.result]
             ELSE install_batch(r.st, order, i + 1, direct)

\* ------------------------------------------------------------------ state

VARIABLES
    packages,         \* table packages: the bag of rows (name, version, current)
    installed_files,  \* table installed_files: rows <<name, version, path>>
    dependencies,     \* table dependencies: rows <<package, dependency, version>>
    tree,             \* <<name, version>> -> the archive unpacked at packages/<name>-<version>
    fs,               \* activation target -> what is at that path
    repo,             \* the repository index
    last,             \* the operation that produced this state
    snap,             \* the state an install; remove; install sequence started from
    run               \* the calls in progress: their inputs and how far they got

vars == <<packages, installed_files, dependencies, tree, fs, repo, last, snap, run>>

State == [packages |-> packages, installed_files |-> installed_files,
          dependencies |-> dependencies, tree |-> tree, fs |-> fs]

Snapshot(s, id, direct) ==
    [archive |-> id, direct |-> direct, packages |-> s.packages,
     installed_files |-> s.installed_files, dependencies |-> s.dependencies,
     tree |-> s.tree, fs |-> s.fs]

NoSnap ==
    [archive |-> NoArchive, direct |-> FALSE, packages |-> EmptyBag,
     installed_files |-> {}, dependencies |-> {},
     tree |-> [p \in Names \X Versions |-> NoArchive],
     fs |-> [t \in Targets |-> Absent]]

\* The record of the operation that produced a state.  prior: the versions
\* of the name recorded when the operation started.  roundtrip: "removed"
\* after a remove that directly follows a successful install of a name
\* without rows, "switched" after a successful switch away from a current
\* version whose tree is on disk, "switched_back" after a switch back to
\* that version directly after it,
\* "reinstalled" after an install of the same archive directly after that.
Last(op, n, v, direct, result, fresh, roundtrip) ==
    [op |-> op, name |-> n, version |-> v, direct |-> direct, result |-> result,
     fresh |-> fresh, prior |-> VersionsOf(packages, n), roundtrip |-> roundtrip]

Commit(s) ==
    /\ packages' = s.packages
    /\ installed_files' = s.installed_files
    /\ dependencies' = s.dependencies
    /\ tree' = s.tree
    /\ fs' = s.fs

\* No call is in progress: every operation of Spec and CatalogSpec runs to
\* its end in one step.
NoRun == [op |-> "none"]

\* A new installation: empty catalog, no package tree, no activation link.
Fresh ==
    /\ packages = EmptyBag
    /\ installed_files = {}
    /\ dependencies = {}
    /\ tree = [p \in Names \X Versions |-> NoArchive]
    /\ fs = [t \in Targets |-> Absent]
    /\ repo \in RepoChoices
    /\ last = [op |-> "init", name |-> "", version |-> NoVersion, direct |-> FALSE,
               result |-> "ok", fresh |-> FALSE, prior |-> {}, roundtrip |-> "none"]
    /\ snap = NoSnap

Init == Fresh /\ run = NoRun

\* An install that adds a row is taken while the rows of its (name, version)
\* stay within MaxCopies.
InstallBounded(a) ==
    \/ is_installed(packages, a.name) = a.version
    \/ CopiesOf(packages, a.name, a.version) < MaxCopies

\* `uhpm install --file`: installer::install on a well-formed archive.
Install ==
    \E a \in Archives, direct \in BOOLEAN :
        LET r == install(State, a, direct)
            again == /\ last.roundtrip = "removed"
                     /\ snap.archive = a.id
                     /\ snap.direct = direct
        IN  /\ InstallBounded(a)
            /\ Commit(r.st)
            /\ last' = Last("install", a.name, a.version, direct, r.result, r.fresh,
                            IF again THEN "reinstalled" ELSE "none")
            /\ snap' = IF again THEN snap ELSE NoSnap
            /\ UNCHANGED <<repo, run>>

\* remove that falls back to any recorded version of the name when none is
\* flagged current.
RemoveAnyVersion ==
    \E n \in Names :
        LET cur == get_package_version(packages, n)
            any == IF cur = {} THEN VersionsOf(packages, n) ELSE cur
        IN  /\ \/ /\ any = {}
                  /\ Commit(State)
                  /\ last' = Last("remove", n, NoVersion, FALSE, "ok", FALSE, "none")
               \/ \E v \in any :
                  /\ Commit(remove(State, n, v))
                  /\ last' = Last("remove", n, v, FALSE, "ok", FALSE, "none")
            /\ snap' = NoSnap
            /\ UNCHANGED <<repo, run>>

\* `uhpm remove NAME`: remover::remove.
Remove ==
    \E n \in Names :
        LET cur == get_package_version(packages, n)
            after == /\ last.op = "install"
                     /\ last.result = "ok"
                     /\ last.fresh
                     /\ last.name = n
        IN  /\ \/ /\ cur = {}
                  /\ Commit(State)
                  /\ last' = Last("remove", n, NoVersion, FALSE, "ok", FALSE, "none")
                  /\ snap' = NoSnap
               \/ \E v \in cur :
                  /\ Commit(remove(State, n, v))
                  /\ last' = Last("remove", n, v, FALSE, "ok", FALSE,
                                  IF after THEN "removed" ELSE "none")
                  /\ snap' = IF after
                             THEN Snapshot(State, ArchiveOf(n, last.version).id, last.direct)
                             ELSE NoSnap
            /\ UNCHANGED <<repo, run>>

\* `uhpm switch NAME@VERSION`: switcher::switch_version.
Switch ==
    \E n \in Names, target \in Versions :
        LET cur == get_package_version(packages, n)
        IN  \E c \in (IF cur = {} THEN {NoVersion} ELSE cur) :
              LET r == switch_version(State, n, target, c)
                  away == /\ c \notin {NoVersion, target}
                          /\ tree[<<n, c>>] # NoArchive
                          /\ r.result = "ok"
                  back == /\ last.roundtrip = "switched"
                          /\ last.name = n
                          /\ last.version = c
                          /\ ArchiveById(snap.archive).version = target
              IN  /\ Commit(r.st)
                  /\ last' = Last("switch", n, target, FALSE, r.result, FALSE,
                                  IF back THEN "switched_back"
                                  ELSE IF away THEN "switched" ELSE "none")
                  /\ snap' = IF back THEN snap
                             ELSE IF away THEN Snapshot(State, tree[<<n, c>>], FALSE)
                             ELSE NoSnap
                  /\ UNCHANGED <<repo, run>>

\* `uhpm update NAME`: updater::update_package; downloaded: whether the
\* fetcher got the archive (a failed download is dropped from the batch and
\* nothing is installed).
Update ==
    \E n \in Names, direct \in BOOLEAN, downloaded \in BOOLEAN :
        LET cur == get_package_version(packages, n)
            v == check_for_update(repo, n)
            r == install(State, ArchiveOf(n, v), direct)
        IN  /\ \/ /\ cur = {}
                  /\ Commit(State)
                  /\ last' = Last("update", n, NoVersion, direct, "not_found", FALSE, "none")
               \/ /\ cur # {}
                  /\ v = NoVersion
                  /\ Commit(State)
                  /\ last' = Last("update", n, NoVersion, direct, "no_new_version", FALSE,
                                  "none")
               \/ /\ cur # {}
                  /\ v # NoVersion
                  /\ ~downloaded
                  /\ Commit(State)
                  /\ last' = Last("update", n, v, direct, "ok_nothing_fetched", FALSE, "none")
               \/ /\ cur # {}
                  /\ v # NoVersion
                  /\ downloaded
                  /\ InstallBounded(ArchiveOf(n, v))
                  /\ Commit(r.st)
                  /\ last' = Last("update", n, v, direct, r.result, r.fresh, "none")
            /\ snap' = NoSnap
            /\ UNCHANGED <<repo, run>>

\* install_from_repo(name, None, direct) where the archives of `order` are
\* the ones downloaded, iterated in that order.
InstallFromRepoCall(n, direct, order) ==
    LET r == install_fetched_packages(State, n, order, 1, direct)
    IN  /\ \A i \in DOMAIN order : CopiesOf(packages, n, order[i]) < MaxCopies
        /\ Commit(r.st)
        /\ last' = Last("install_from_repo", n, NoVersion, FALSE,
                        IF Listed(repo, n) = {} THEN "not_found" ELSE r.result,
                        FALSE, "none")
        /\ snap' = NoSnap
        /\ UNCHANGED <<repo, run>>

\* `uhpm install NAME`: every version the repositories list for the name is
\* collected; a failed download is dropped from the batch.
InstallFromRepo ==
    \E n \in Names, direct \in BOOLEAN :
        \E got \in SUBSET Listed(repo, n) :
            \E order \in Orders(got) : InstallFromRepoCall(n, direct, order)

\* The user writes a regular file, or a symlink to a file of theirs, at an
\* activation target.
UserReplace ==
    \E t \in Targets, f \in {UserFile, UserLink} :
        /\ fs[t] # f
        /\ fs' = [fs EXCEPT ![t] = f]
        /\ last' = Last("user", "", NoVersion, FALSE, "ok", FALSE, "none")
        /\ snap' = NoSnap
        /\ UNCHANGED <<packages, installed_files, dependencies, tree, repo, run>>

Next == Install \/ Remove \/ Switch \/ Update \/ InstallFromRepo \/ UserReplace

Spec == Init /\ [][Next]_vars

\* ------------------------------------------- the catalog called directly

\* db.add_package_full(pkg, files) with the manifest of an archive and a
\* list of recorded paths.
PutFullCall(a, files) ==
    /\ CopiesOf(packages, a.name, a.version) < MaxCopies
    /\ Commit(add_package_full(State, a, files))
    /\ last' = Last("put_full", a.name, a.version, FALSE, "ok", FALSE, "none")
    /\ snap' = NoSnap
    /\ UNCHANGED <<repo, run>>

PutFull == \E a \in Archives, files \in {{}, Targets} : PutFullCall(a, files)

\* db.set_current_version(name, version): both UPDATEs run and Ok(()) is
\* returned, whatever rows they matched.
SetCurrent ==
    \E n \in Names, v \in Versions :
        /\ Commit([State EXCEPT !.packages = set_current_version(@, n, v)])
        /\ last' = Last("set_current", n, v, FALSE, "ok", FALSE, "none")
        /\ snap' = NoSnap
        /\ UNCHANGED <<repo, run>>

\* db.remove_package_version(name, version).
RemoveVersion ==
    \E n \in Names, v \in Versions :
        /\ Commit(remove_package_version(State, n, v))
        /\ last' = Last("remove_version", n, v, FALSE, "ok", FALSE, "none")
        /\ snap' = NoSnap
        /\ UNCHANGED <<repo, run>>

CatalogNext == PutFull \/ SetCurrent \/ RemoveVersion

CatalogSpec == Init /\ [][CatalogNext]_vars

\* ------------------------------------------- installs, switches, the user

SwitchNext == Install \/ Switch \/ UserReplace

SwitchSpec == Init /\ [][SwitchNext]_vars

\* ------------------------------------- installs of files and of batches

\* installer::install on the file a, any file.
InstallFileCall(a, direct) ==
    LET r == install(State, a, direct)
    IN  /\ InstallBounded(a)
        /\ Commit(r.st)
        /\ last' = Last("install_file", a.name, a.version, direct, r.result, r.fresh,
                        "none")
        /\ snap' = NoSnap
        /\ UNCHANGED <<repo, run>>

InstallFile == \E a \in BrokenArchives, direct \in BOOLEAN : InstallFileCall(a, direct)

\* The sets of archives of pairwise distinct package names.
Batches ==
    { b \in SUBSET Archives : \A x, y \in b : x.name = y.name => x = y }

\* fetcher::fetch_and_install_parallel where the archives of `order` are the
\* ones downloaded and the map iterates them in that order.
FetchAndInstallCall(order, direct) ==
    LET r == install_batch(State, order, 1, direct)
    IN  /\ \A i \in DOMAIN order : InstallBounded(order[i])
        /\ Commit(r.st)
        /\ last' = Last("fetch_and_install", "", NoVersion, FALSE, r.result, FALSE,
                        "none")
        /\ snap' = NoSnap
        /\ UNCHANGED <<repo, run>>

FetchAndInstall ==
    \E b \in Batches, direct \in BOOLEAN :
        \E order \in Orders(b) : FetchAndInstallCall(order, direct)

\* `uhpm install --file` of a package whose activation map does not load.
InstallMapless ==
    \E a \in MaplessArchives, direct \in BOOLEAN : InstallFileCall(a, direct)

MaplessNext == Install \/ InstallMapless \/ UserReplace

MaplessSpec == Init /\ [][MaplessNext]_vars

ArchiveNext == Install \/ InstallFile \/ FetchAndInstall \/ Remove

ArchiveSpec == Init /\ [][ArchiveNext]_vars

\* ------------------------------- set_current_version, statement by statement

\* The callers that may be inside db.set_current_version at the same time:
\* the pool hands each statement a connection, and a call yields at the
\* .await of each of its two UPDATEs.
Callers == {1, 2}

IdleCall == [op |-> "none", name |-> "", version |-> NoVersion, pc |-> "idle"]

SetCurrentInit == Fresh /\ run = [c \in Callers |-> IdleCall]

\* db.add_package_full of a manifest, between the calls.
PutRecord ==
    \E a \in Archives :
        /\ CopiesOf(packages, a.name, a.version) < MaxCopies
        /\ Commit(add_package_full(State, a, {}))
        /\ UNCHANGED <<repo, last, snap, run>>

\* A caller enters set_current_version(n, v) for a recorded (n, v).
BeginSetCurrent ==
    \E c \in Callers, n \in Names, v \in Versions :
        /\ run[c].pc \in {"idle", "done"}
        /\ CopiesOf(packages, n, v) > 0
        /\ run' = [run EXCEPT ![c] = [op |-> "set_current", name |-> n,
                                      version |-> v, pc |-> "clear"]]
        /\ UNCHANGED <<packages, installed_files, dependencies, tree, fs, repo,
                       last, snap>>

\* The first statement: UPDATE packages SET current = 0 WHERE name = ?
ClearStatement ==
    \E c \in Callers :
        /\ run[c].pc = "clear"
        /\ packages' = ClearCurrent(packages, run[c].name)
        /\ run' = [run EXCEPT ![c].pc = "mark"]
        /\ UNCHANGED <<installed_files, dependencies, tree, fs, repo, last, snap>>

\* The second statement: UPDATE packages SET current = 1 WHERE name = ? AND
\* version = ?, after which the call returns Ok(()).
MarkStatement ==
    \E c \in Callers :
        /\ run[c].pc = "mark"
        /\ packages' = MarkCurrent(packages, run[c].name, run[c].version)
        /\ run' = [run EXCEPT ![c].pc = "done"]
        /\ UNCHANGED <<installed_files, dependencies, tree, fs, repo, last, snap>>

SetCurrentNext == PutRecord \/ BeginSetCurrent \/ ClearStatement \/ MarkStatement

SetCurrentSpec == SetCurrentInit /\ [][SetCurrentNext]_vars


\* ----------------------------------------- catalog calls, by SQL statement

\* One process calls the catalog; it may die between two statements and is
\* then started again on the catalog file as it is.
IdleStatements ==
    [op |-> "none", name |-> "", version |-> NoVersion, pc |-> "idle", at |-> 0,
     deps |-> {}, files |-> {}]

StatementsInit == Fresh /\ run = IdleStatements

\* The tables a remove call deletes from, in the order of its statements.
RemoveOrderRowsFirst == <<"packages", "dependencies", "installed_files">>

RemoveOrder == <<"installed_files", "dependencies", "packages">>

\* Where add_package_full goes on after a statement: the loop over the
\* dependencies, the loop over the files, the return.
PutFullPc(deps, files) ==
    IF deps # {} THEN "dependency" ELSE IF files # {} THEN "file" ELSE "done"

\* The caller enters add_package_full(pkg, installed_files).
BeginPutFull ==
    \E a \in Archives, files \in {{}, Targets} :
        /\ run.pc \in {"idle", "done"}
        /\ CopiesOf(packages, a.name, a.version) < MaxCopies
        /\ run' = [op |-> "add_package_full", name |-> a.name, version |-> a.version,
                   pc |-> "add_package", at |-> 0, deps |-> a.deps,
                   files |-> files]
        /\ last' = Last("begin", a.name, a.version, FALSE, "add_package_full", FALSE,
                        "none")
        /\ UNCHANGED <<packages, installed_files, dependencies, tree, fs, repo, snap>>

\* self.add_package(pkg).await?: INSERT OR REPLACE INTO packages
AddPackageStatement ==
    /\ run.pc = "add_package"
    /\ packages' = add_package(packages, run.name, run.version)
    /\ run' = [run EXCEPT !.pc = PutFullPc(run.deps, run.files)]
    /\ UNCHANGED <<installed_files, dependencies, tree, fs, repo, last, snap>>

\* One pass of the loop over pkg.dependencies(): INSERT OR REPLACE INTO
\* dependencies
DependencyStatement ==
    \E d \in run.deps :
        /\ run.pc = "dependency"
        /\ dependencies' = ReplaceDependency(dependencies, run.name, d)
        /\ run' = [run EXCEPT !.deps = @ \ {d},
                              !.pc = PutFullPc(run.deps \ {d}, run.files)]
        /\ UNCHANGED <<packages, installed_files, tree, fs, repo, last, snap>>

\* One pass of the loop over installed_files: INSERT OR REPLACE INTO
\* installed_files
FileStatement ==
    \E f \in run.files :
        /\ run.pc = "file"
        /\ installed_files' = installed_files \cup { <<run.name, run.version, f>> }
        /\ run' = [run EXCEPT !.files = @ \ {f},
                              !.pc = PutFullPc(run.deps, run.files \ {f})]
        /\ UNCHANGED <<packages, dependencies, tree, fs, repo, last, snap>>

\* The caller enters remove_package_version(name, version).
BeginRemoveVersion ==
    \E n \in Names, v \in Versions :
        /\ run.pc \in {"idle", "done"}
        /\ run' = [op |-> "remove_package_version", name |-> n, version |-> v,
                   pc |-> "delete", at |-> 1, deps |-> {}, files |-> {}]
        /\ last' = Last("begin", n, v, FALSE, "remove_package_version", FALSE, "none")
        /\ UNCHANGED <<packages, installed_files, dependencies, tree, fs, repo, snap>>

\* The caller enters remove_package(name).
BeginRemovePackage ==
    \E n \in Names :
        /\ run.pc \in {"idle", "done"}
        /\ run' = [op |-> "remove_package", name |-> n, version |-> NoVersion,
                   pc |-> "delete", at |-> 1, deps |-> {}, files |-> {}]
        /\ last' = Last("begin", n, NoVersion, FALSE, "remove_package", FALSE, "none")
        /\ UNCHANGED <<packages, installed_files, dependencies, tree, fs, repo, snap>>

\* The rows a statement of the remove call in progress is scoped to.
InScope(n, v) ==
    /\ n = run.name
    /\ run.op = "remove_package_version" => v = run.version

\* The call in progress after one of its DELETE statements.
AfterDelete ==
    IF run.at = Len(RemoveOrder) THEN [run EXCEPT !.pc = "done", !.at = 0]
    ELSE [run EXCEPT !.at = @ + 1]

\* DELETE FROM installed_files WHERE package_name = ? [AND package_version = ?]
DeleteFilesStatement ==
    /\ run.pc = "delete"
    /\ RemoveOrder[run.at] = "installed_files"
    /\ installed_files' = { x \in installed_files : ~InScope(x[1], x[2]) }
    /\ run' = AfterDelete
    /\ UNCHANGED <<packages, dependencies, tree, fs, repo, last, snap>>

\* DELETE FROM dependencies WHERE package_name = ?
DeleteDependenciesStatement ==
    /\ run.pc = "delete"
    /\ RemoveOrder[run.at] = "dependencies"
    /\ dependencies' = { x \in dependencies : x[1] # run.name }
    /\ run' = AfterDelete
    /\ UNCHANGED <<packages, installed_files, tree, fs, repo, last, snap>>

\* DELETE FROM packages WHERE name = ? [AND version = ?]
DeletePackagesStatement ==
    /\ run.pc = "delete"
    /\ RemoveOrder[run.at] = "packages"
    /\ packages' = DeleteRows({ r \in DOMAIN packages : InScope(r.name, r.version) },
                              packages)
    /\ run' = AfterDelete
    /\ UNCHANGED <<installed_files, dependencies, tree, fs, repo, last, snap>>

\* The process dies inside a call: the statements already run stay, the
\* rest never runs.
Crash ==
    /\ run.pc \notin {"idle", "done"}
    /\ run' = IdleStatements
    /\ last' = Last("crash", run.name, run.version, FALSE, run.op, FALSE, "none")
    /\ UNCHANGED <<packages, installed_files, dependencies, tree, fs, repo, snap>>

StatementsNext ==
    \/ BeginPutFull \/ AddPackageStatement \/ DependencyStatement \/ FileStatement
    \/ BeginRemoveVersion \/ BeginRemovePackage
    \/ DeleteFilesStatement \/ DeleteDependenciesStatement \/ DeletePackagesStatement
    \/ Crash

StatementsSpec == StatementsInit /\ [][StatementsNext]_vars

\* --------------------------------------------------- remove, step by step

\* No remove is in progress.
IdleRemove ==
    [op |-> "none", name |-> "", version |-> NoVersion, pc |-> "idle", at |-> 0,
     files |-> {}, attempt |-> 0, first |-> NoVersion, killed |-> "none",
     result |-> "none"]

RemoveStepsInit == Fresh /\ run = IdleRemove

\* `uhpm remove NAME` starts: db.get_package_version(name), and Ok(()) at
\* once when no version is current.  After a kill the same remove is run
\* again.
BeginRemove ==
    \E n \in Names :
        LET cur == get_package_version(packages, n)
            again == run.pc = "killed"
            call == [IdleRemove EXCEPT !.op = "remove", !.name = n,
                        !.attempt = IF again THEN 2 ELSE 1,
                        !.killed = run.killed]
        IN  /\ run.pc \in {"idle", "killed"}
            /\ again => n = run.name
            /\ \/ /\ cur = {}
                  /\ run' = [call EXCEPT !.pc = "done", !.result = "ok",
                                         !.first = IF again THEN run.first ELSE NoVersion]
               \/ \E v \in cur :
                     run' = [call EXCEPT !.pc = "dir", !.version = v,
                                         !.first = IF again THEN run.first ELSE v]
            /\ UNCHANGED <<packages, installed_files, dependencies, tree, fs, repo,
                           last, snap>>

\* RemoveDirStep without the test pkg_dir.exists(): remove_dir_all of a
\* directory that is not there returns the io error.
RemoveDirStepStrict ==
    /\ run.pc = "dir"
    /\ IF tree[<<run.name, run.version>>] = NoArchive
       THEN /\ run' = [run EXCEPT !.pc = "done", !.result = "io_error"]
            /\ tree' = tree
       ELSE LET files == get_all_installed_files(State, run.name)
            IN  /\ tree' = [tree EXCEPT ![<<run.name, run.version>>] = NoArchive]
                /\ run' = [run EXCEPT !.files = files,
                              !.pc = IF files = {} THEN "delete" ELSE "files",
                              !.at = IF files = {} THEN 1 ELSE 0]
    /\ UNCHANGED <<packages, installed_files, dependencies, fs, repo, last, snap>>

\* if pkg_dir.exists() { remove_dir_all(&pkg_dir)? } else { warn }, then the
\* query for the recorded files of the name.
RemoveDirStep ==
    LET files == get_all_installed_files(State, run.name)
    IN  /\ run.pc = "dir"
        /\ tree' = [tree EXCEPT ![<<run.name, run.version>>] = NoArchive]
        /\ run' = [run EXCEPT !.files = files,
                              !.pc = IF files = {} THEN "delete" ELSE "files",
                              !.at = IF files = {} THEN 1 ELSE 0]
        /\ UNCHANGED <<packages, installed_files, dependencies, fs, repo, last, snap>>

\* One pass of the loop over the recorded files: the path is removed if
\* path.exists().
RemoveFileStep ==
    \E f \in run.files :
        LET rest == run.files \ {f}
        IN  /\ run.pc = "files"
            /\ fs' = IF exists(fs, tree, f) THEN [fs EXCEPT ![f] = Absent] ELSE fs
            /\ run' = [run EXCEPT !.files = rest,
                                  !.pc = IF rest = {} THEN "delete" ELSE "files",
                                  !.at = IF rest = {} THEN 1 ELSE 0]
            /\ UNCHANGED <<packages, installed_files, dependencies, tree, repo, last,
                           snap>>

\* db.remove_package(name) has run its last statement: remove returns Ok(()).
RemoveReturns ==
    /\ run.op = "remove"
    /\ run.pc = "done"
    /\ run.result = "none"
    /\ run' = [run EXCEPT !.result = "ok"]
    /\ UNCHANGED <<packages, installed_files, dependencies, tree, fs, repo, last, snap>>

\* The process is killed inside the first run of remove.
KillRemove ==
    /\ run.pc \in {"dir", "files", "delete"}
    /\ run.attempt = 1
    /\ run' = [run EXCEPT !.pc = "killed", !.files = {}, !.at = 0,
                          !.killed = IF run.pc = "delete" /\ run.at > 1
                                     THEN "between_deletes" ELSE run.pc]
    /\ UNCHANGED <<packages, installed_files, dependencies, tree, fs, repo, last, snap>>

\* The process that ran remove has exited.
RemoveExits ==
    /\ run.pc = "done"
    /\ run.result # "none"
    /\ run' = IdleRemove
    /\ UNCHANGED <<packages, installed_files, dependencies, tree, fs, repo, last, snap>>

\* Between two removes the user installs packages and edits the targets.
BetweenRemoves ==
    /\ run.pc = "idle"
    /\ (Install \/ UserReplace)

RemoveStepsNext ==
    \/ BetweenRemoves \/ BeginRemove \/ RemoveDirStep \/ RemoveFileStep
    \/ DeleteFilesStatement \/ DeleteDependenciesStatement \/ DeletePackagesStatement
    \/ RemoveReturns \/ RemoveExits \/ KillRemove

RemoveStepsSpec == RemoveStepsInit /\ [][RemoveStepsNext]_vars

\* ------------------------------------------------- install, step by step

\* installer::install as the sequence of its effects, with the process
\* killed or not between two of them.  pc names the last effect that took
\* place; already: the result of is_installed; files: the paths
\* create_symlinks returned; attempt: 2 for the install of the same archive
\* run again right after the first was killed.
IdleInstall ==
    [op |-> "none", archive |-> NoArchive, direct |-> FALSE, pc |-> "idle",
     result |-> "", already |-> NoVersion, files |-> {}, attempt |-> 0]

InstallStepsInit == Fresh /\ run = IdleInstall

Returned == {"idle", "done", "failed", "aborted", "killed"}

Store == <<packages, installed_files, dependencies, tree, fs>>

\* `uhpm install --file` of a well-formed archive starts; nothing else runs
\* until it returns.  A (name, version) is installed while it has no row,
\* and once more after its install was killed.
BeginInstall ==
    \E a \in Archives, direct \in BOOLEAN :
        LET again == /\ run.pc = "killed"
                     /\ run.archive = a.id
                     /\ run.direct = direct
        IN  /\ run.pc \in Returned
            /\ InstallBounded(a)
            /\ again \/ CopiesOf(packages, a.name, a.version) = 0
            /\ run' = [IdleInstall EXCEPT !.op = "install", !.archive = a.id,
                                          !.direct = direct, !.pc = "called",
                                          !.attempt = IF again THEN 2 ELSE 1]
            /\ snap' = IF again THEN snap ELSE Snapshot(State, a.id, direct)
            /\ UNCHANGED <<Store, repo, last>>

\* let unpacked = unpack(pkg_path)?
UnpackStep ==
    /\ run.pc = "called"
    /\ run' = IF unpack(ArchiveById(run.archive)).ok
               THEN [run EXCEPT !.pc = "unpacked"]
               ELSE [run EXCEPT !.pc = "failed", !.result = "unpack_error"]
    /\ UNCHANGED <<Store, repo, last, snap>>

\* let package_meta = meta_parser(&meta_path)?
ParseStep ==
    /\ run.pc = "unpacked"
    /\ run' = LET m == meta_parser(ArchiveById(run.archive))
               IN  CASE m = "ok" -> [run EXCEPT !.pc = "parsed"]
                     [] m = "panic" -> [run EXCEPT !.pc = "aborted", !.result = m]
                     [] OTHER -> [run EXCEPT !.pc = "failed", !.result = m]
    /\ UNCHANGED <<Store, repo, last, snap>>

\* db.is_installed and the return for the version already recorded.
CheckStep ==
    /\ run.pc = "parsed"
    /\ LET a == ArchiveById(run.archive)
           was == is_installed(packages, a.name)
       IN  run' = IF was = a.version
                  THEN [run EXCEPT !.pc = "done", !.result = "same_version_skipped"]
                  ELSE [run EXCEPT !.pc = "checked", !.already = was]
    /\ UNCHANGED <<Store, repo, last, snap>>

\* remove_dir_all / create_dir_all / rename of the staged tree onto
\* packages/<name>-<version>.
MoveStep ==
    /\ run.pc = "checked"
    /\ LET a == ArchiveById(run.archive)
       IN  tree' = [tree EXCEPT ![<<a.name, a.version>>] = a.id]
    /\ run' = [run EXCEPT !.pc = "moved"]
    /\ UNCHANGED <<packages, installed_files, dependencies, fs, repo, last, snap>>

\* create_symlinks(&package_root, direct)? when is_installed returned None.
ActivateStep ==
    /\ run.pc = "moved"
    /\ LET a == ArchiveById(run.archive)
           made == IF run.already = NoVersion
                   THEN create_symlinks(fs, tree, <<a.name, a.version>>, run.direct)
                   ELSE [fs |-> fs, files |-> {}, ok |-> TRUE]
       IN  /\ fs' = made.fs
           /\ run' = IF made.ok
                      THEN [run EXCEPT !.pc = "activated", !.files = made.files]
                      ELSE [run EXCEPT !.pc = "failed", !.result = "io_error"]
    /\ UNCHANGED <<packages, installed_files, dependencies, tree, repo, last, snap>>

\* The catalog write placed right after the move, ahead of create_symlinks.
RecordStepAfterMove ==
    /\ run.pc = "moved"
    /\ Commit(add_package_full(State, ArchiveById(run.archive), {}))
    /\ run' = [run EXCEPT !.pc = "activated"]
    /\ UNCHANGED <<repo, last, snap>>

\* db.add_package_full(&package_meta, &installed_files_str)
RecordStep ==
    /\ run.pc = "activated"
    /\ Commit(add_package_full(State, ArchiveById(run.archive), run.files))
    /\ run' = [run EXCEPT !.pc = "recorded"]
    /\ UNCHANGED <<repo, last, snap>>

\* db.set_current_version(name, version) and Ok(()).
SetCurrentStep ==
    /\ run.pc = "recorded"
    /\ LET a == ArchiveById(run.archive)
       IN  packages' = set_current_version(packages, a.name, a.version)
    /\ run' = [run EXCEPT !.pc = "done", !.result = "ok"]
    /\ UNCHANGED <<installed_files, dependencies, tree, fs, repo, last, snap>>

\* The process is killed after the move, after the activation or after the
\* catalog write: what is on disk stays as it is.
Kill ==
    /\ run.pc \in {"moved", "activated", "recorded"}
    /\ run.attempt = 1
    /\ run' = [run EXCEPT !.pc = "killed", !.result = run.pc]
    /\ UNCHANGED <<Store, repo, last, snap>>

InstallStepsNext ==
    \/ BeginInstall \/ UnpackStep \/ ParseStep \/ CheckStep \/ MoveStep
    \/ ActivateStep \/ RecordStep \/ SetCurrentStep \/ Kill

InstallStepsSpec == InstallStepsInit /\ [][InstallStepsNext]_vars

\* ------------------------------------------------- fetcher::fetch_packages

\* Longest list of URLs handed to fetch_packages.
MaxUrls == 3

Urls == {"file:///repo/hello-2.0.0.uhp", "https://example.org/hello-10.0.0.uhp",
         "https://mirror.example.org/hello-10.0.0.uhp"}

\* The path download_package returns for a URL it could fetch: the path of
\* a file:// URL, the file name of an http(s) URL under the temporary
\* directory.
LocalPath(url) ==
    CASE url = "file:///repo/hello-2.0.0.uhp" -> "/repo/hello-2.0.0.uhp"
      [] OTHER -> "/tmp/hello-10.0.0.uhp"

UrlLists == UNION { [1..k -> Urls] : k \in 0..MaxUrls }

\* A HashMap with key k inserted.
Insert(map, k, x) == [y \in DOMAIN map \cup {k} |-> IF y = k THEN x ELSE map[y]]

EmptyMap == [y \in {} |-> ""]

\* The arm of `match res` that also keeps the path of a failed download.
CollectAny(results, url, ok) == Insert(results, url, LocalPath(url))

\* The body of the loop over futures.next(): Ok(path) is inserted under its
\* URL, Err(e) is logged.
Collect(results, url, ok) ==
    IF ok THEN Insert(results, url, LocalPath(url)) ELSE results

IdleFetch == [op |-> "none", urls |-> << >>, outcome |-> << >>,
              results |-> EmptyMap, pc |-> "idle"]

FetchInit == Fresh /\ run = IdleFetch

\* fetch_packages(urls): one future per element of urls is pushed to the
\* FuturesUnordered.
BeginFetch ==
    \E urls \in UrlLists :
        /\ run.pc \in {"idle", "returned"}
        /\ run' = [op |-> "fetch", urls |-> urls,
                   outcome |-> [i \in 1..Len(urls) |-> "pending"],
                   results |-> EmptyMap, pc |-> "polling"]
        /\ UNCHANGED <<Store, repo, last, snap>>

\* futures.next() yields a download that completed, in any order, with the
\* result of download_package.
DownloadCompletes ==
    \E i \in 1..Len(run.urls), ok \in BOOLEAN :
        /\ run.pc = "polling"
        /\ run.outcome[i] = "pending"
        /\ run' = [run EXCEPT !.outcome[i] = IF ok THEN "ok" ELSE "failed",
                              !.results = Collect(@, run.urls[i], ok)]
        /\ UNCHANGED <<Store, repo, last, snap>>

\* futures.next() yields None: the map is returned.
FetchReturns ==
    /\ run.pc = "polling"
    /\ \A i \in 1..Len(run.urls) : run.outcome[i] # "pending"
    /\ run' = [run EXCEPT !.pc = "returned"]
    /\ UNCHANGED <<Store, repo, last, snap>>

FetchNext == BeginFetch \/ DownloadCompletes \/ FetchReturns

FetchSpec == FetchInit /\ [][FetchNext]_vars

\* ----------------------------------------------------- load_symlist alone

SymlistInit ==
    /\ Fresh
    /\ \E content \in SymlistFiles :
          run = [op |-> "load_symlist", content |-> content, pc |-> "called",
                 result |-> [ok |-> TRUE, line |-> 0, entries |-> << >>]]

LoadSymlist ==
    /\ run.pc = "called"
    /\ run' = [run EXCEPT !.pc = "returned", !.result = load_symlist(run.content)]
    /\ UNCHANGED <<Store, repo, last, snap>>

SymlistSpec == SymlistInit /\ [][LoadSymlist]_vars

\* ------------------------------------------------------------------ claims

Completed ==
    /\ last.op \in {"install", "update", "switch", "remove"}
    /\ last.result \in {"ok", "same_version_skipped"}

\* The activation targets of an archive: the targets of the entries of its
\* symlist whose source file is in the tree.
ActivationTargets(a) ==
    { a.symlist[i][2] : i \in { j \in 1..Len(a.symlist) : a.symlist[j][1] \in a.files } }

\* What is at t is an activation link of packages/<n>-<v>: a symlink into the
\* tree or a direct-mode copy of one of its files.
ActivatedBy(f, n, v) == f.kind \in {"symlink", "copy"} /\ f.n = n /\ f.v = v

\* C1: for every package name at most one row of the packages table has
\* current = true.
C1_AtMostOneCurrentRow ==
    \A n \in Names :
        SumOver({ r \in RowsOf(packages, n) : r.current }, packages) <= 1

\* C2: the packages table holds at most one row for each (name, version).
C2_OneRowPerNameVersion ==
    \A r \in DOMAIN packages : CopiesOf(packages, r.name, r.version) <= 1

\* C3: an install of an archive whose (name, version) is already recorded
\* returns success and leaves the catalog rows, the current flags, the
\* package trees and the activation links as they were.
C3_InstallIdempotent ==
    [][ (last'.op = "install" /\ last'.version \in VersionsOf(packages, last'.name))
        => /\ last'.result \in {"ok", "same_version_skipped"}
           /\ UNCHANGED <<packages, installed_files, dependencies, tree, fs>> ]_vars

\* C4: after a successful install of (name, version) the installed-files set
\* recorded for it is the set of its activation targets, and each of them is
\* an activation link of packages/<name>-<version>/.
C4_InstallRecordsActivation ==
    (last.op = "install" /\ last.result = "ok") =>
        LET a == ArchiveOf(last.name, last.version)
        IN  /\ get_installed_files(State, a.name, a.version) = ActivationTargets(a)
            /\ \A t \in ActivationTargets(a) : ActivatedBy(fs[t], a.name, a.version)

\* C5: after every completed operation, every activation link of a name on
\* disk belongs to the version of that name the catalog flags current.
C5_CurrentIsActivated ==
    Completed =>
        \A n \in Names : \A v \in get_package_version(packages, n) :
            \A t \in Targets :
                (fs[t].kind \in {"symlink", "copy"} /\ fs[t].n = n) => fs[t].v = v

\* C6: after an install in symlink mode followed by remove(name), none of the
\* targets the install created is on the filesystem in any form, and the
\* package tree is gone.
C6_RemoveLeavesNoLink ==
    (last.roundtrip = "removed" /\ ~snap.direct) =>
        /\ tree[<<last.name, last.version>>] = NoArchive
        /\ \A t \in get_installed_files(snap, last.name, last.version) : fs[t] = Absent

\* C7: install; remove(name); install of one archive succeeds at each step
\* and ends in the catalog and filesystem state the first install left.
C7_RemoveThenInstallRestores ==
    (last.roundtrip = "reinstalled") =>
        /\ last.result = "ok"
        /\ packages = snap.packages
        /\ installed_files = snap.installed_files
        /\ dependencies = snap.dependencies
        /\ tree = snap.tree
        /\ fs = snap.fs

C7_Witness ==
    /\ last.roundtrip = "reinstalled"
    /\ get_installed_files(State, last.name, last.version) # {}

\* A remove of a name with two or more recorded versions, one of them
\* current, is the step to the primed state.
RemovesOneOfSeveral ==
    /\ last'.op = "remove"
    /\ last'.version # NoVersion
    /\ Cardinality(VersionsOf(packages, last'.name)) >= 2

C9_RemoveClearsName ==
    (last.op = "remove" /\ last.result = "ok" /\ last.version # NoVersion) =>
        /\ get_package_version(packages, last.name) = {}
        /\ \A x \in list_packages(packages) : x[1] # last.name

C9_Witness ==
    /\ last.op = "remove"
    /\ last.result = "ok"
    /\ last.version # NoVersion
    /\ last.prior = {2, 10}

\* C10: remove leaves untouched a regular file or a symlink to some other
\* target that the user has put at an activation target.
C10_RemoveSparesUserFiles ==
    [][ last'.op = "remove" =>
        \A t \in Targets : fs[t] \in {UserFile, UserLink} => fs'[t] = fs[t] ]_vars

\* The activation links of name n on the filesystem f: paths and what they
\* link to.
ActivationLinks(f, n) ==
    { <<t, f[t]>> : t \in { u \in Targets : f[u].kind \in {"symlink", "copy"} /\ f[u].n = n } }

\* The links create_symlinks makes for archive a in symlink mode.
LinksOf(a) ==
    { <<a.symlist[i][2], Link(a.name, a.version, a.symlist[i][1])>> :
        i \in { j \in 1..Len(a.symlist) : a.symlist[j][1] \in a.files } }

\* C11: with A current and its activation links in place, switch to B and
\* then switch back to A, both succeeding, leaves the activation links of
\* the name (paths and link targets) as they were before the first switch.
C11_SwitchRoundTrip ==
    ( /\ last.roundtrip = "switched_back"
      /\ last.result = "ok"
      /\ ActivationLinks(snap.fs, last.name) = LinksOf(ArchiveById(snap.archive)) )
    => ActivationLinks(fs, last.name) = ActivationLinks(snap.fs, last.name)

\* C12: whenever switch(name, v) returns success, the catalog has a row for
\* (name, v) and v is the current version of name.
C12_SwitchOnlyToRecorded ==
    (last.op = "switch" /\ last.result = "ok") =>
        /\ last.version \in VersionsOf(packages, last.name)
        /\ get_package_version(packages, last.name) = {last.version}

C14_SetCurrentAbsentKeepsFlags ==
    [][ (last'.op = "set_current" /\ last'.version \notin VersionsOf(packages, last'.name))
        => get_package_version(packages', last'.name)
              = get_package_version(packages, last'.name) ]_vars

\* C19: after add_package_full(pkg, files) the dependency rows stored for
\* pkg's name are exactly pkg's declared dependencies and the installed-files
\* rows stored for (name, version) are exactly files.
C19_PutFullReplaces ==
    [][ \A a \in Archives, files \in {{}, Targets} :
          PutFullCall(a, files) =>
            /\ { x \in dependencies' : x[1] = a.name }
                  = { <<a.name, d[1], d[2]>> : d \in a.deps }
            /\ { x[3] : x \in { y \in installed_files' :
                                   y[1] = a.name /\ y[2] = a.version } } = files
      ]_vars

\* C20: remove_package_version(name, version) leaves the rows of every other
\* version of the name and of every other name as they were: packages rows,
\* installed-files rows, and the dependency rows another recorded version
\* of the name declares.
C20_RemoveVersionFrame ==
    [][ last'.op = "remove_version" =>
        LET n == last'.name
            v == last'.version
            others == VersionsOf(packages, n) \ {v}
        IN  /\ \A r \in DOMAIN packages :
                  (r.name # n \/ r.version # v) =>
                      /\ r \in DOMAIN packages'
                      /\ packages'[r] = packages[r]
            /\ \A x \in installed_files :
                  (x[1] # n \/ x[2] # v) => x \in installed_files'
            /\ \A x \in dependencies :
                  (\/ x[1] # n
                   \/ \E w \in others : <<x[2], x[3]>> \in ArchiveOf(n, w).deps)
                  => x \in dependencies'
      ]_vars

\* C21: after put_full(pkg, files), get(name, version) returns a record equal
\* to pkg in name, version, author, checksum, source and dependencies, and
\* once set_current has made (name, version) current so does
\* get_current(name), whatever other versions of the name are recorded.
C21_LookupReturnsRecord ==
    [][/\ \A a \in Archives, files \in {{}, Targets} :
              PutFullCall(a, files) =>
                  get_package_by_version(State', a.name, a.version) = { Manifest(a) }
       /\ (last'.op = "set_current"
              /\ CopiesOf(packages, last'.name, last'.version) > 0) =>
                  get_current_package(State', last'.name)
                      = { Manifest(ArchiveOf(last'.name, last'.version)) }]_vars

\* C22: while two set_current calls on one name with different versions are
\* in progress or have returned, at most one version of the name is flagged
\* current, and exactly one once both have returned.
C22_SetCurrentTransactional ==
    (/\ \A c \in Callers : run[c].op = "set_current"
     /\ run[1].name = run[2].name
     /\ run[1].version # run[2].version)
    => LET cur == get_package_version(packages, run[1].name)
       IN  /\ Cardinality(cur) <= 1
           /\ (\A c \in Callers : run[c].pc = "done") => Cardinality(cur) = 1

\* The catalog and filesystem a snapshot holds.
StateOf(sn) ==
    [packages |-> sn.packages, installed_files |-> sn.installed_files,
     dependencies |-> sn.dependencies, tree |-> sn.tree, fs |-> sn.fs]

\* C23: an install that was killed after the move, after the activation or
\* after the catalog write and is then run again ends in the state the
\* install ends in when nothing kills it.
C23_RerunCompletesInstall ==
    (/\ run.op = "install"
     /\ run.attempt = 2
     /\ run.pc \in Returned
     /\ run.pc # "killed")
    => LET whole == install(StateOf(snap), ArchiveById(run.archive), run.direct)
       IN  whole.result = "ok" => State = whole.st

C26_FetchKeysAreSuccesses ==
    (run.op = "fetch" /\ run.pc = "returned") =>
        LET done == { i \in 1..Len(run.urls) : run.outcome[i] = "ok" }
        IN  /\ \A i \in 1..Len(run.urls) : run.outcome[i] \in {"ok", "failed"}
            /\ DOMAIN run.results = { run.urls[i] : i \in done }
            /\ \A u \in DOMAIN run.results : run.results[u] = LocalPath(u)

\* A fetch returned with a download that failed and a download of another
\* URL that succeeded.
C26_Witness ==
    /\ run.op = "fetch"
    /\ run.pc = "returned"
    /\ \E i, j \in 1..Len(run.urls) :
          /\ run.outcome[i] = "failed"
          /\ run.outcome[j] = "ok"
          /\ run.urls[i] # run.urls[j]

\* C24: install of a path without a file, of a file that is not a gzip
\* tar, or of an archive whose manifest is missing or malformed returns an
\* error to its caller and leaves the catalog and packages/ as they were.
C24_BadArchiveReturnsError ==
    [][\A a \in { x \in BrokenArchives : x.file # "tar.gz" \/ x.manifest # "ok" },
          direct \in BOOLEAN :
            InstallFileCall(a, direct) =>
                /\ last'.result \in {"unpack_error", "meta_error"}
                /\ UNCHANGED <<packages, installed_files, dependencies, tree>>]_vars

\* C25: install of an archive with an entry path holding `..` or starting
\* with `/` returns an error and leaves the catalog and everything outside
\* the staging directory as they were.
C25_UnsafeEntryRejected ==
    [][\A a \in { x \in BrokenArchives : x.unsafe # {} }, direct \in BOOLEAN :
            InstallFileCall(a, direct) =>
                /\ last'.result \notin {"ok", "same_version_skipped"}
                /\ UNCHANGED <<packages, installed_files, dependencies, tree, fs>>]_vars

\* C27: a batch of two archives of distinct names, none recorded, ends with
\* one row per package, flagged current, and with the same catalog whatever
\* the order the downloaded archives are installed in.
C27_BatchOrderIndependent ==
    [][\A b \in Batches, direct \in BOOLEAN :
         \A order \in Orders(b) :
            (/\ FetchAndInstallCall(order, direct)
             /\ Cardinality(b) = 2
             /\ \A a \in b : RowsOf(packages, a.name) = {})
            => /\ \A a \in b :
                    /\ RowsOf(packages', a.name) = { Row(a.name, a.version, TRUE) }
                    /\ CopiesOf(packages', a.name, a.version) = 1
               /\ \A other \in Orders(b) :
                    install_batch(State, other, 1, direct).st.packages = packages']_vars

\* C28: remove of a name without a current version, unknown or recorded
\* with no row flagged current, returns success and changes neither the
\* catalog nor the filesystem.
C28_RemoveWithoutCurrentIsNoop ==
    [][\A n \in Names :
          (/\ last'.op = "remove"
           /\ last'.name = n
           /\ get_package_version(packages, n) = {})
          => /\ last'.result = "ok"
             /\ UNCHANGED <<packages, installed_files, dependencies, tree, fs>>]_vars

\* remove ran on a name with rows, none of them current.
C28_Witness ==
    /\ last.op = "remove"
    /\ last.version = NoVersion
    /\ last.prior # {}
    /\ get_package_version(packages, last.name) = {}

RECURSIVE Fields(_)
\* The fields of a line: its maximal runs of characters other than space
\* and tab, in order.
Fields(s) ==
    LET t == trim_start(s)
        white == { i \in 1..Len(t) : is_whitespace(t[i]) }
        cut == IF white = {} THEN Len(t) + 1
               ELSE CHOOSE x \in white : \A y \in white : x <= y
    IN  IF t = << >> THEN << >>
        ELSE << SubSeq(t, 1, cut - 1) >> \o Fields(SubSeq(t, cut, Len(t)))

\* A line is ignored when it is blank or its first non-blank character is #.
Ignored(s) == Fields(s) = << >> \/ Head(Fields(s)[1]) = "#"

\* C29: load_symlist returns one entry per line that is neither blank nor a
\* comment, in file order, the source being the first field of the line and
\* the target what follows the first run of spaces or tabs; when such a
\* line has fewer than two fields the result is a parse error with the
\* 1-based number of the first such line, and no entries.
C29_LoadSymlistSplitsOnWhitespace ==
    (run.op = "load_symlist" /\ run.pc = "returned") =>
        LET lines == run.content
            kept == { i \in 1..Len(lines) : ~Ignored(lines[i]) }
            short == { i \in kept : Len(Fields(lines[i])) < 2 }
            keptSeq == SelectSeq([i \in 1..Len(lines) |-> lines[i]],
                                 LAMBDA l : ~Ignored(l))
            res == run.result
        IN  IF short = {}
            THEN /\ res.ok
                 /\ Len(res.entries) = Len(keptSeq)
                 /\ \A k \in 1..Len(keptSeq) :
                       /\ res.entries[k][1] = join(Fields(keptSeq[k])[1])
                       /\ Len(Fields(keptSeq[k])) = 2 =>
                             res.entries[k][2] = Fields(keptSeq[k])[2]
            ELSE /\ ~res.ok
                 /\ res.entries = << >>
                 /\ \A i \in short : res.line <= i
                 /\ res.line \in short

\* The entries (source, target) of the map the switcher cleans up for the
\* version c of n: those of symlist.ron in packages/<n>-<c>.
CleanupMap(n, c) ==
    IF c = NoVersion \/ tree[<<n, c>>] = NoArchive THEN {}
    ELSE LET a == ArchiveById(tree[<<n, c>>])
         IN  IF a.ron_state # "ok" THEN {}
             ELSE { a.ron[i] : i \in 1..Len(a.ron) }

\* C31: a switch leaves nothing where something was only at a target that
\* held a symlink to the packaged source the map of a current version of
\* the name gives for it: regular files, copies, symlinks to other places
\* and symlinks whose target is gone stay.
C31_DeactivationRemovesOwnLinksOnly ==
    [][last'.op = "switch" =>
         \A t \in Targets :
            (fs[t] # Absent /\ fs'[t] = Absent) =>
                \E c \in get_package_version(packages, last'.name) :
                   \E e \in CleanupMap(last'.name, c) :
                      /\ e[2] = t
                      /\ fs[t] = Link(last'.name, c, e[1])
                      /\ exists(fs, tree, t)]_vars

\* A switch ran its clean-up over a map with a file of the user at one of
\* its targets, and stopped at the missing directory: the file is there.
C31_Witness ==
    /\ last.op = "switch"
    /\ last.result = "missing_package_dir"
    /\ \E c \in get_package_version(packages, last.name) :
          /\ \E e \in CleanupMap(last.name, c) : fs[e[2]] \in {UserFile, UserLink}
          /\ \E e \in CleanupMap(last.name, c) : fs[e[2]] = Absent

\* C33: in every state of the catalog, between two statements of
\* add_package_full, remove_package_version and remove_package and after a
\* death of the process between them included, every installed_files row
\* has a packages row of the same name and version.
C33_FilesHavePackageRow ==
    \A x \in installed_files : CopiesOf(packages, x[1], x[2]) > 0

\* The process died in add_package_full after the first of two file rows,
\* while rows of another version of the name are recorded.
C33_Witness ==
    /\ last.op = "crash"
    /\ last.result = "add_package_full"
    /\ Cardinality(get_installed_files([installed_files |-> installed_files],
                                       last.name, last.version)) = 1
    /\ \E x \in installed_files : x[1] = last.name /\ x[2] # last.version

\* C35: a remove that was killed after the directory went, after some of
\* the recorded files went or between its catalog deletes, and is run
\* again, returns Ok and leaves no row of the removed version in the
\* catalog.
C35_RerunCompletesRemove ==
    (run.op = "remove" /\ run.attempt = 2 /\ run.pc = "done" /\ run.result # "none") =>
        /\ run.result = "ok"
        /\ CopiesOf(packages, run.name, run.first) = 0
        /\ \A x \in installed_files : ~(x[1] = run.name /\ x[2] = run.first)
        /\ \A x \in dependencies : x[1] # run.name

\* The first run was killed between two catalog deletes; the second run
\* has returned.
C35_Witness ==
    /\ run.op = "remove"
    /\ run.attempt = 2
    /\ run.pc = "done"
    /\ run.result = "ok"
    /\ run.killed = "between_deletes"
    /\ run.first # NoVersion

\* The (name, version) pairs flagged current in a packages table.
CurrentPairs(pk) == { <<r.name, r.version>> : r \in { x \in DOMAIN pk : x.current } }

C32_ActivationSucceeds ==
    [][(last'.op = "install" /\ last'.fresh) =>
         LET n == last'.name
             v == last'.version
             a == ArchiveById(tree'[<<n, v>>])
         IN  /\ last'.result = "ok"
             /\ \A i \in 1..Len(a.symlist) :
                   a.symlist[i][1] \in a.files =>
                      /\ fs'[a.symlist[i][2]] =
                            IF last'.direct THEN Copy(n, v, a.symlist[i][1])
                            ELSE Link(n, v, a.symlist[i][1])
                      /\ a.symlist[i][2] \in
                            get_installed_files([installed_files |-> installed_files'], n, v)]_vars

\* C36: after a remove of a name that returned Ok, every directory
\* packages/<name>-<v> still on disk has a packages row of (name, v), also
\* when several versions of the name were installed.
C36_RemoveLeavesNoTree ==
    [][(last'.op = "remove" /\ last'.result = "ok") =>
         \A v \in Versions :
            tree'[<<last'.name, v>>] # NoArchive =>
               CopiesOf(packages', last'.name, v) > 0]_vars

\* C38: an install of a package whose activation map is missing or does
\* not parse, and which is not skipped as the version already installed,
\* returns Ok: no target is touched, no file row is written, the version
\* has a packages row and is flagged current.
C38_InstallWithoutMap ==
    [][\A a \in MaplessArchives, direct \in BOOLEAN :
          (InstallFileCall(a, direct) /\ last'.result # "same_version_skipped") =>
              /\ last'.result = "ok"
              /\ fs' = fs
              /\ installed_files' = installed_files
              /\ get_installed_files([installed_files |-> installed_files'],
                                     a.name, a.version) = {}
              /\ tree'[<<a.name, a.version>>] = a.id
              /\ CopiesOf(packages', a.name, a.version) > 0
              /\ get_package_version(packages', a.name) = {a.version}]_vars

\* The first version of a name was installed from a package whose map has
\* a line that does not parse: activation was run and made nothing.
C38_Witness ==
    /\ last.op = "install_file"
    /\ last.result = "ok"
    /\ last.fresh
    /\ tree[<<last.name, last.version>>] # NoArchive
    /\ ArchiveById(tree[<<last.name, last.version>>]).symlist_state = "malformed"
    /\ get_package_version(packages, last.name) = {last.version}
    /\ \A x \in installed_files : x[1] # last.name

\* C37: a switch that fails with MissingPackageDir leaves the filesystem
\* as it was: the activation links of the current version are still there.
C37_FailedSwitchKeepsLinks ==
    [][(last'.op = "switch" /\ last'.result = "missing_package_dir") => fs' = fs]_vars

\* C37 as amended: a switch that fails with MissingPackageDir has run the
\* clean-up of the current version: the targets that held the symlink to
\* the packaged source its map gives are absent, and every other target,
\* the package trees and the catalog are as they were.
C37_FailedSwitchHasDeactivated ==
    [][(last'.op = "switch" /\ last'.result = "missing_package_dir") =>
         /\ UNCHANGED <<packages, installed_files, dependencies, tree>>
         /\ \A t \in Targets :
               LET own == \E c \in get_package_version(packages, last'.name) :
                            \E e \in CleanupMap(last'.name, c) :
                               /\ e[2] = t
                               /\ fs[t] = Link(last'.name, c, e[1])
                               /\ exists(fs, tree, t)
               IN  fs'[t] = IF own THEN Absent ELSE fs[t]]_vars

\* A switch failed with MissingPackageDir and took a link of the current
\* version away: the version is current, its tree is on disk, and a target
\* of its map that holds a source of the tree is absent.
C37_Witness ==
    /\ last.op = "switch"
    /\ last.result = "missing_package_dir"
    /\ \E c \in get_package_version(packages, last.name) :
          \E e \in CleanupMap(last.name, c) :
             /\ e[1] \in ArchiveById(tree[<<last.name, c>>]).files
             /\ fs[e[2]] = Absent
    /\ \A t \in Targets : fs[t] \in {Absent, UserFile}

\* C15: update of a name for which the repositories list no version
\* strictly greater than the current one fails with NoNewVersion and leaves
\* catalog and filesystem as they were (stated for the updates whose
\* download does not fail).
C15_UpdateNoNewVersion ==
    [][ ( /\ last'.op = "update"
          /\ last'.result # "ok_nothing_fetched"
          /\ \E c \in get_package_version(packages, last'.name) :
                \A w \in Listed(repo, last'.name) : w <= c )
        => /\ last'.result = "no_new_version"
           /\ UNCHANGED <<packages, installed_files, dependencies, tree, fs>> ]_vars

\* C16: when update succeeds in installing, the version current afterwards
\* is strictly greater than the version that was current before.
C16_UpdateOnlyUpgrades ==
    [][ (last'.op = "update" /\ last'.result = "ok")
        => \A c \in get_package_version(packages, last'.name) :
             \A d \in get_package_version(packages', last'.name) : d > c ]_vars

\* C17: installing a name that is not installed from the repositories
\* without a version pin, every listed archive downloaded, ends with the
\* max-semver listed version current, for every iteration order.
C17_InstallFromRepoLatest ==
    [][ \A n \in Names, direct \in BOOLEAN :
          \A order \in Orders(Listed(repo, n)) :
            ( /\ Cardinality(Listed(repo, n)) >= 2
              /\ RowsOf(packages, n) = {}
              /\ InstallFromRepoCall(n, direct, order)
              /\ last'.result = "ok" )
            => get_package_version(packages', n) = {SemverMax(Listed(repo, n))}
      ]_vars

\* C18: a path recorded in installed_files for an installed (name, version)
\* that is an activation link of the name is a link to, or a copy of, a
\* file of that same version.
C18_RecordedPathsOwnVersion ==
    \A x \in installed_files :
        LET f == fs[x[3]] IN
        ( /\ x[2] \in VersionsOf(packages, x[1])
          /\ f.kind \in {"symlink", "copy"}
          /\ f.n = x[1] )
        => f.v = x[2]

====
